---- MODULE Spec2Model ----
(***************************************************************************)
(* what_vpn/sniffers.py: the Hit result type, the eight sniffers and the   *)
(* registry, run by a fingerprint engine against one server through a      *)
(* shared HTTP session.                                                     *)
(*                                                                          *)
(* Representation of Python values:                                         *)
(*   - a str compared only by equality is a TLA+ string; None is the atom  *)
(*     None below, which no text of the domains equals;                     *)
(*   - a str/bytes that is searched (startswith, in, re.search, read(n))   *)
(*     is a sequence of lexemes, and matching lexemes is matching           *)
(*     characters: a literal the code looks for ('DS', 'SVPNCOOKIE',        *)
(*     '<prelogin-response>', 'Barracuda Networks', ...) is one lexeme      *)
(*     wherever it occurs; in a body searched for a version banner every    *)
(*     digit, '-', blank and newline is a lexeme of its own; in a prelogin  *)
(*     body only the lexemes of Tags hold a '<'; a raw stream is a          *)
(*     sequence of characters;                                              *)
(*   - a float confidence c is the integer c * ONE (ONE = 80), so that     *)
(*     0.2, 0.8, 0.9 and the multiples of 1/16 are exact, and for each of   *)
(*     them the double product c*100 truncates to (c*100) \div ONE;         *)
(*   - an optional list or number is a sequence of length <= 1.             *)
(***************************************************************************)
EXTENDS Integers, Sequences, FiniteSets, TLC

VARIABLES order, idx, pc, loc, cookies, open, log, resps, result,
          detected, shown, errors

vars == <<order, idx, pc, loc, cookies, open, log, resps, result,
          detected, shown, errors>>

----------------------------------------------------------------------------
(* Python values *)

None == "None"

Nothing == <<>>

Some(v) == <<v>>

StartsWith(s, p) == Len(p) <= Len(s) /\ SubSeq(s, 1, Len(p)) = p

Contains(s, p) ==
    \E i \in 1..(Len(s) - Len(p) + 1) : SubSeq(s, i, i + Len(p) - 1) = p

RECURSIVE Join(_, _)
Join(strings, sep) ==
    IF Len(strings) = 0 THEN ""
    ELSE IF Len(strings) = 1 THEN strings[1]
    ELSE strings[1] \o sep \o Join(Tail(strings), sep)

RECURSIVE Concat(_)
Concat(lexemes) ==
    IF Len(lexemes) = 0 THEN "" ELSE lexemes[1] \o Concat(Tail(lexemes))

ONE == 80

Trunc(n, d) == IF n >= 0 THEN n \div d ELSE -((-n) \div d)

----------------------------------------------------------------------------
(* class Hit *)

Hit(confidence, name, version, components) ==
    [confidence |-> confidence, name |-> name, version |-> version,
     components |-> components]

DefaultConfidence == ONE

Truthy(x) == x # None /\ x # ""

Hit_bool_nonnegative(self) == self.confidence >= 0

Hit_bool(self) == self.confidence > 0

PercentTruncated(confidence) == ToString(Trunc(confidence * 100, ONE)) \o "%"

details(self) ==
    LET s1 == IF Truthy(self.name) THEN <<self.name>> ELSE <<>>
        s2 == IF Truthy(self.version) THEN s1 \o <<self.version>> ELSE s1
        s3 == IF self.components # Nothing /\ self.components[1] # <<>>
              THEN s2 \o <<Join(self.components[1], "+")>> ELSE s2
        s4 == IF self.confidence < ONE
              THEN s3 \o <<PercentTruncated(self.confidence)>> ELSE s3
    IN Join(s4, ", ")

_meaningless_kept(x, vals) == x

_meaningless(x, vals) == IF x \notin vals THEN x ELSE None

----------------------------------------------------------------------------
(* re.search over lexeme sequences *)

Digits == {"0", "1", "2", "3", "4", "5", "6", "7", "8", "9"}

Whitespace == {" ", "\t", "\r", "\n"}

Tags == {"<html>", "<prelogin-response>", "</prelogin-response>",
         "<status>Success</status>", "<status>Error</status>",
         "<panos-version>", "</panos-version>"}

(* the positions just after a non-empty run of lexemes of class C at k *)
RunEnds(s, k, C) ==
    {e \in (k + 1)..(Len(s) + 1) : \A j \in k..(e - 1) : s[j] \in C}

Max(S) == CHOOSE x \in S : \A y \in S : y <= x

Min(S) == CHOOSE x \in S : \A y \in S : x <= y

(* \s+Barracuda Networks *)
BarracudaRest(s, e) ==
    \E w \in RunEnds(s, e, Whitespace) :
        w <= Len(s) /\ s[w] = "Barracuda Networks"

(* .+Check Point Software Technologies *)
CheckPointRest(s, e) ==
    \E q \in (e + 1)..Len(s) :
        /\ s[q] = "Check Point Software Technologies"
        /\ \A j \in e..(q - 1) : s[j] # "\n"

(* what follows (\d+-)?(\d+) in the pattern of the sniffer named *)
Rest(pattern, s, e) ==
    IF pattern = "barracuda" THEN BarracudaRest(s, e) ELSE CheckPointRest(s, e)

(* (\d+) followed by the rest, greedy: the ends at which the rest matches *)
Group2Ends(s, k, pattern) == {e \in RunEnds(s, k, Digits) : Rest(pattern, s, e)}

(* (\d+-)?(\d+)rest at position i: <<start, end>> of group 2, or <<>> *)
VersionMatchAt(s, i, pattern) ==
    LET g1 == {a \in RunEnds(s, i, Digits) :
                  /\ a <= Len(s)
                  /\ s[a] = "-"
                  /\ Group2Ends(s, a + 1, pattern) # {}}
    IN IF g1 # {}
       THEN <<Max(g1) + 1, Max(Group2Ends(s, Max(g1) + 1, pattern))>>
       ELSE IF Group2Ends(s, i, pattern) # {}
       THEN <<i, Max(Group2Ends(s, i, pattern))>>
       ELSE <<>>

(* m and m.group(2).decode() of the leftmost match, or None *)
VersionSearch(s, pattern) ==
    LET starts == {i \in 1..Len(s) : VersionMatchAt(s, i, pattern) # <<>>}
    IN IF starts = {} THEN None
       ELSE LET m == VersionMatchAt(s, Min(starts), pattern)
            IN Concat(SubSeq(s, m[1], m[2] - 1))

(* <panos-version>([^<]+)</panos-version>: group 1 of the leftmost match *)
PanosVersionSearch(s) ==
    LET ends(i) == {e \in RunEnds(s, i + 1, {s[j] : j \in 1..Len(s)} \ Tags) :
                       e <= Len(s) /\ s[e] = "</panos-version>"}
        starts == {i \in 1..Len(s) : s[i] = "<panos-version>" /\ ends(i) # {}}
    IN IF starts = {} THEN None
       ELSE Concat(SubSeq(s, Min(starts) + 1, Max(ends(Min(starts))) - 1))

----------------------------------------------------------------------------
(* The transport: requests, responses, the session's cookie jar *)

Range(f) == {f[i] : i \in DOMAIN f}

Request(method, path, headers, stream) ==
    [method |-> method, path |-> path, headers |-> headers, stream |-> stream]

NoHeaders == [accept |-> "*/*"]

Response(status_code, reason, hdr, set_cookies, content, url, raw) ==
    [status_code |-> status_code, reason |-> reason, hdr |-> hdr,
     set_cookies |-> set_cookies, content |-> content, url |-> url, raw |-> raw]

(* the Set-Cookie header of a response that sets the cookies named *)
RECURSIVE SetCookieHeader(_)
SetCookieHeader(names) ==
    IF Len(names) = 1 THEN names[1] \o <<"=", "; path=/">>
    ELSE names[1] \o <<"=", "; path=/">> \o <<", ">> \o SetCookieHeader(Tail(names))

(* r.headers: a case-insensitive mapping, keys kept in lower case *)
headers(r) ==
    IF r.set_cookies = <<>> THEN r.hdr
    ELSE ("set-cookie" :> SetCookieHeader(r.set_cookies)) @@ r.hdr

Lower(name) ==
    CASE name = "X-Reason" -> "x-reason"
      [] name = "NCP-Version" -> "ncp-version"
      [] OTHER -> name

HeaderIn(name, r) == Lower(name) \in DOMAIN headers(r)

HeaderGet(r, name, default) ==
    IF HeaderIn(name, r) THEN headers(r)[Lower(name)] ELSE default

(* r.raw.read(n) on an unread stream *)
RawRead(r, n) == SubSeq(r.raw, 1, IF Len(r.raw) < n THEN Len(r.raw) ELSE n)

(* the jar after a response: requests merges the response's cookies *)
ExtractCookies(jar, r) == jar \cup Range(r.set_cookies)

----------------------------------------------------------------------------
(* Server behaviours *)

DSID == <<"DS", "ID">>
OVPN == <<"openvpn_sess_", "4f2a">>
SSLX == <<"SSLX_SSESHID">>
SVPN == <<"SVPNCOOKIE">>
SVPNNET == <<"SVPNNETWORKCOOKIE">>
PHP == <<"PHPSESSID">>

BaseHeaders == [date |-> "Mon, 02 Nov 2026 18:00:00 GMT"]

WithHeader(k, V) == {BaseHeaders} \cup {(k :> v) @@ BaseHeaders : v \in V}

Merge(A, B) == {a @@ b : a \in A, b \in B}

AnyconnectGetResponses ==
    {Response(200, "OK", h, c, <<>>, <<"/CSCOSSLC/tunnel">>, <<>>) :
        h \in Merge(WithHeader("x-reason", {"Invalid HTTP method"}),
                    WithHeader("server", {"Cisco ASDM"})),
        c \in {<<>>, <<DSID>>}}

X_Reason == <<"X", "-", "R", "e", "a", "s", "o", "n", ":">>

ConnectResponses ==
    {Response(400, reason, BaseHeaders, <<>>, <<>>, <<"/CSCOSSLC/tunnel">>, raw) :
        reason \in {"Cookie is not acceptable", "Bad Request"},
        raw \in {<<>>, X_Reason \o <<" ", "x">>, SubSeq(X_Reason, 1, 8),
                 <<"<", "h", "t", "m", "l", ">", "X", "-", "R", "e">>}}

JuniperResponses ==
    {Response(200, "OK", h, c, <<>>, u, <<>>) :
        h \in WithHeader("ncp-version", {"3"}),
        c \in {<<>>, <<DSID>>, <<PHP>>},
        u \in {<<"/dana-na">>, <<"/dana-na", "/auth/", "url_default/welcome.cgi">>}}

PreloginBodies ==
    {<<"<html>">>,
     <<"<prelogin-response>", "<status>Success</status>", "<panos-version>",
       "8.1.3", "</panos-version>", "</prelogin-response>">>,
     <<"<prelogin-response>", "<status>Success</status>", "<panos-version>",
       "1", "</panos-version>", "</prelogin-response>">>,
     <<"<prelogin-response>", "<status>Error</status>", "<panos-version>",
       "9.0", "</panos-version>", "</prelogin-response>">>,
     <<"<prelogin-response>", "<status>Success</status>", "</prelogin-response>">>,
     <<"<status>Success</status>", "<panos-version>", "8.1.3", "</panos-version>">>}

PreloginResponses ==
    {Response(200, "OK", h, <<>>, b, <<"/prelogin.esp">>, <<>>) :
        h \in WithHeader("content-type",
                         {<<"application/xml", "; charset=UTF-8">>,
                          <<"text/xml">>, <<"text/html">>}),
        b \in PreloginBodies}

RootResponses ==
    {Response(200, "OK", h, c, b, u, <<>>) :
        h \in WithHeader("server", {"OpenVPN-AS"}),
        c \in {<<>>, <<SSLX>>, <<OVPN>>, <<DSID>>},
        b \in {<<"<html>">>,
               <<"2", "0", "1", "7", " ", "Barracuda Networks">>,
               <<"6", "-", "1", "2", " ", "\n", "Barracuda Networks">>},
        u \in {<<"/">>, <<"/default/showLogon.do", "?x=1">>}}

ClientsResponses ==
    {Response(200, "OK", BaseHeaders, <<>>, b, <<"/clients/abc">>, <<>>) :
        b \in {<<>>, <<"<html>">>, <<"(CCCserverResponse", " :data ()", ")">>,
               <<" ", "(CCCserverResponse">>}}

TracRootResponses ==
    {Response(200, "OK", BaseHeaders, c, b, <<"/">>, <<>>) :
        c \in {<<>>, <<OVPN>>},
        b \in {<<"<html>">>,
               <<"2", "0", "1", "7", " ", "Check Point Software Technologies">>,
               <<"8", "0", "-", "1", "0", "Check Point Software Technologies">>,
               <<"7", "\n", "Check Point Software Technologies">>}}

SstpResponses ==
    {Response(st, "OK", h, <<>>, <<>>, <<"/sra_">>, <<>>) :
        st \in {200, 404},
        h \in Merge(WithHeader("content-length", {"18446744073709551615", "0"}),
                    WithHeader("server", {"Microsoft-HTTPAPI/2.0", "Foo/1.2"}))}

FortinetResponses ==
    {Response(200, "OK", h, c, <<>>, <<"/remote/login">>, <<>>) :
        h \in WithHeader("server", {"xxxxxxxx-xxxxx", "Apache"}),
        c \in {<<>>, <<SVPN>>, <<SVPNNET>>, <<PHP, SVPN>>, <<SVPN, SVPNNET>>}}

----------------------------------------------------------------------------
(* What an invocation of a sniffer ends in *)

ReturnedNone == [kind |-> "None"]

Returned(hit) == [kind |-> "Hit", hit |-> hit]

Pending == [kind |-> "Pending"]

Raised_swallowed == ReturnedNone

(* no sniffer catches what the transport raises: it leaves the sniffer *)
Raised == [kind |-> "Raise"]

C0_2 == 16
C0_8 == 64
C0_9 == 72

And_falsy_hit(confidence, hit) ==
    IF confidence = Nothing THEN Returned(Hit(0, None, None, Nothing))
    ELSE Returned(hit)

(* confidence and Hit(...) *)
And_(confidence, hit) ==
    IF confidence = Nothing \/ confidence[1] = 0 THEN ReturnedNone
    ELSE Returned(hit)

closing_leaky(streams, r) == streams

(* contextlib.closing: r.close() when the with block is left, however *)
closing(streams, r) == streams \ {r}

----------------------------------------------------------------------------
(* The sniffers: what each computes from the responses it received *)

Probes == <<[component |-> "portal", path |-> "global-protect"],
            [component |-> "gateway", path |-> "ssl-vpn"]>>

global_protect_locals ==
    [i |-> 1, components |-> <<>>, version |-> None, hit |-> Nothing]

global_protect_loop_any_status(l, r) ==
    IF /\ StartsWith(HeaderGet(r, "content-type", <<>>), <<"application/xml">>)
       /\ Contains(r.content, <<"<prelogin-response>">>)
    THEN [i |-> l.i + 1,
          hit |-> Some(TRUE),
          components |-> Append(l.components, Probes[l.i].component),
          version |->
              IF PanosVersionSearch(r.content) # None
              THEN PanosVersionSearch(r.content)
              ELSE l.version]
    ELSE [l EXCEPT !.i = l.i + 1]

(* one iteration of the loop of global_protect *)
global_protect_loop(l, r) ==
    IF /\ StartsWith(HeaderGet(r, "content-type", <<>>), <<"application/xml">>)
       /\ Contains(r.content, <<"<prelogin-response>">>)
    THEN [i |-> l.i + 1,
          hit |-> Some(TRUE),
          components |->
              IF Contains(r.content, <<"<status>Success</status>">>)
              THEN Append(l.components, Probes[l.i].component)
              ELSE l.components,
          version |->
              IF PanosVersionSearch(r.content) # None
              THEN PanosVersionSearch(r.content)
              ELSE l.version]
    ELSE [l EXCEPT !.i = l.i + 1]

global_protect_return(l) ==
    IF l.hit # Nothing
    THEN Returned(Hit(DefaultConfidence, None, _meaningless(l.version, {"1"}),
                      Some(l.components)))
    ELSE ReturnedNone

(* confidence after the POST of check_point *)
check_point_post(r) ==
    IF StartsWith(r.content, <<"(CCCserverResponse">>) THEN Some(ONE) ELSE Nothing

check_point_return(confidence, r) ==
    LET version == VersionSearch(r.content, "check_point")
        confidence2 == IF version # None
                       THEN IF confidence # Nothing THEN confidence ELSE Some(C0_2)
                       ELSE confidence
    IN And_(confidence2, Hit(confidence2[1], None, version, Nothing))

sstp_return(r) ==
    IF /\ r.status_code = 200
       /\ HeaderGet(r, "content-length", None) = "18446744073709551615"
    THEN Returned(Hit(DefaultConfidence, None,
                      _meaningless(HeaderGet(r, "server", None),
                                   {"Microsoft-HTTPAPI/2.0"}),
                      Nothing))
    ELSE ReturnedNone

anyconnect_cisco(r) ==
    Returned(Hit(DefaultConfidence, "Cisco", HeaderGet(r, "server", None), Nothing))

anyconnect_with_body_first(r, readfails) ==
    IF readfails THEN [result |-> Raised, nread |-> 0]
    ELSE IF RawRead(r, 9) = X_Reason
    THEN [result |-> Returned(Hit(DefaultConfidence, "ocserv", "0.8.0-0.11.6",
                                  Nothing)),
          nread |-> Len(RawRead(r, 9))]
    ELSE IF r.reason = "Cookie is not acceptable"
    THEN [result |-> Returned(Hit(DefaultConfidence, "ocserv", "0.11.7+", Nothing)),
          nread |-> Len(RawRead(r, 9))]
    ELSE [result |-> ReturnedNone, nread |-> Len(RawRead(r, 9))]

(* the with block of anyconnect: what it ends in and how much of r.raw it
   read; readfails says whether r.raw.read raises when it is called *)
anyconnect_with_body(r, readfails) ==
    IF r.reason = "Cookie is not acceptable"
    THEN [result |-> Returned(Hit(DefaultConfidence, "ocserv", "0.11.7+", Nothing)),
          nread |-> 0]
    ELSE IF readfails THEN [result |-> Raised, nread |-> 0]
    ELSE IF RawRead(r, 9) = X_Reason
    THEN [result |-> Returned(Hit(DefaultConfidence, "ocserv", "0.8.0-0.11.6",
                                  Nothing)),
          nread |-> Len(RawRead(r, 9))]
    ELSE [result |-> ReturnedNone, nread |-> Len(RawRead(r, 9))]

openvpn_return(jar, r) ==
    IF \E c \in jar : StartsWith(c, <<"openvpn_sess_">>)
    THEN Returned(Hit(DefaultConfidence, None, HeaderGet(r, "server", None), Nothing))
    ELSE ReturnedNone

juniper_nc_return(jar, r) ==
    LET confidence == IF \E c \in jar : StartsWith(c, <<"DS">>) THEN Some(ONE)
                      ELSE IF StartsWith(r.url, <<"/dana-na", "/auth/">>)
                      THEN Some(C0_8)
                      ELSE Nothing
    IN And_(confidence, Hit(confidence[1], None, HeaderGet(r, "NCP-Version", None),
                            Nothing))

barracuda_return(jar, r) ==
    LET version == VersionSearch(r.content, "barracuda")
        confidence ==
            IF SSLX \in jar THEN Some(ONE)
            ELSE IF StartsWith(r.url, <<"/default/showLogon.do">>)
            THEN (IF Truthy(version) THEN Some(C0_9) ELSE Some(C0_8))
            ELSE IF Truthy(version) THEN Some(C0_2)
            ELSE Nothing
    IN And_(confidence, Hit(confidence[1], None, version, Nothing))

fortinet_return_anywhere(r) ==
    IF Contains(HeaderGet(r, "set-cookie", <<>>), <<"SVPNCOOKIE">>)
    THEN LET server == HeaderGet(r, "server", None)
             confidence == IF server = "xxxxxxxx-xxxxx" THEN ONE ELSE C0_9
         IN Returned(Hit(confidence, None,
                         _meaningless(server, {"xxxxxxxx-xxxxx"}), Nothing))
    ELSE ReturnedNone

fortinet_return(r) ==
    IF StartsWith(HeaderGet(r, "set-cookie", <<>>), <<"SVPNCOOKIE">>)
    THEN LET server == HeaderGet(r, "server", None)
             confidence == IF server = "xxxxxxxx-xxxxx" THEN ONE ELSE C0_9
         IN Returned(Hit(confidence, None,
                         _meaningless(server, {"xxxxxxxx-xxxxx"}), Nothing))
    ELSE ReturnedNone

sniffers == <<"anyconnect", "juniper_nc", "global_protect", "barracuda",
              "check_point", "sstp", "openvpn", "fortinet">>

----------------------------------------------------------------------------
(* One invocation, request by request *)

engine == <<order, idx, detected, shown, errors>>

NoLocals == [none |-> TRUE]

(* the transport raises during req: nothing is received, the sniffer is left *)
Fails(req) ==
    /\ log' = Append(log, req)
    /\ result' = Raised
    /\ pc' = "returned"
    /\ UNCHANGED <<resps, cookies, loc, open>>

Receives(req, r) ==
    /\ log' = Append(log, req)
    /\ resps' = Append(resps, r)
    /\ cookies' = ExtractCookies(cookies, r)

Returns(v) ==
    /\ result' = v
    /\ pc' = "returned"

Get(path, hdrs) == Request("GET", path, hdrs, FALSE)

anyconnect ==
    /\ pc = "anyconnect"
    /\ LET req == Get("/CSCOSSLC/tunnel", NoHeaders) IN
       \/ Fails(req)
       \/ \E r \in AnyconnectGetResponses :
            /\ Receives(req, r)
            /\ IF HeaderIn("X-Reason", r)
               THEN Returns(anyconnect_cisco(r))
               ELSE pc' = "anyconnect_connect" /\ UNCHANGED result
            /\ UNCHANGED <<loc, open>>
    /\ UNCHANGED engine

anyconnect_connect ==
    /\ pc = "anyconnect_connect"
    /\ LET req == Request("CONNECT", "/CSCOSSLC/tunnel",
                          [Cookie |-> "webvpn="], TRUE) IN
       \/ Fails(req)
       \/ \E r \in ConnectResponses :
            /\ Receives(req, r)
            /\ open' = open \cup {"CONNECT"}
            /\ pc' = "anyconnect_with"
            /\ UNCHANGED <<loc, result>>
    /\ UNCHANGED engine

(* the with block of anyconnect, and leaving it *)
anyconnect_with ==
    /\ pc = "anyconnect_with"
    /\ \E readfails \in BOOLEAN :
          LET end == anyconnect_with_body(resps[Len(resps)], readfails) IN
          /\ Returns(end.result)
          /\ loc' = [nread |-> end.nread]
    /\ open' = closing(open, "CONNECT")
    /\ UNCHANGED <<log, resps, cookies>>
    /\ UNCHANGED engine

juniper_nc ==
    /\ pc = "juniper_nc"
    /\ LET req == Get("/dana-na", [user_agent |-> "ncsrv", NCP_Version |-> "3"]) IN
       \/ Fails(req)
       \/ \E r \in JuniperResponses :
            /\ Receives(req, r)
            /\ Returns(juniper_nc_return(cookies', r))
            /\ UNCHANGED <<loc, open>>
    /\ UNCHANGED engine

global_protect ==
    /\ pc = "global_protect"
    /\ LET req == Get("/" \o Probes[loc.i].path \o "/prelogin.esp",
                      [user_agent |-> "PAN GlobalProtect"]) IN
       \/ Fails(req)
       \/ \E r \in PreloginResponses :
            /\ Receives(req, r)
            /\ loc' = global_protect_loop(loc, r)
            /\ IF loc.i = Len(Probes)
               THEN Returns(global_protect_return(loc'))
               ELSE UNCHANGED <<pc, result>>
            /\ open' = open
    /\ UNCHANGED engine

barracuda ==
    /\ pc = "barracuda"
    /\ LET req == Get("/", NoHeaders) IN
       \/ Fails(req)
       \/ \E r \in RootResponses :
            /\ Receives(req, r)
            /\ Returns(barracuda_return(cookies', r))
            /\ UNCHANGED <<loc, open>>
    /\ UNCHANGED engine

check_point ==
    /\ pc = "check_point"
    /\ LET req == Request("POST", "/clients/abc",
                          [user_agent |-> "TRAC/986000125",
                           data |-> "(CCCclientRequest)"], FALSE) IN
       \/ Fails(req)
       \/ \E r \in ClientsResponses :
            /\ Receives(req, r)
            /\ loc' = [confidence |-> check_point_post(r)]
            /\ pc' = "check_point_get"
            /\ UNCHANGED <<result, open>>
    /\ UNCHANGED engine

check_point_get ==
    /\ pc = "check_point_get"
    /\ LET req == Get("/", [user_agent |-> "TRAC/986000125"]) IN
       \/ Fails(req)
       \/ \E r \in TracRootResponses :
            /\ Receives(req, r)
            /\ Returns(check_point_return(loc.confidence, r))
            /\ UNCHANGED <<loc, open>>
    /\ UNCHANGED engine

sstp ==
    /\ pc = "sstp"
    /\ LET req == Request("SSTP_DUPLEX_POST",
                          "/sra_%7BBA195980-CD49-458b-9E23-C84EE0ADCD75%7D/",
                          NoHeaders, TRUE) IN
       \/ Fails(req)
       \/ \E r \in SstpResponses :
            /\ Receives(req, r)
            /\ open' = open \cup {"SSTP_DUPLEX_POST"}
            /\ pc' = "sstp_with"
            /\ UNCHANGED <<loc, result>>
    /\ UNCHANGED engine

(* the with block of sstp, and leaving it *)
sstp_with ==
    /\ pc = "sstp_with"
    /\ Returns(sstp_return(resps[Len(resps)]))
    /\ open' = closing(open, "SSTP_DUPLEX_POST")
    /\ UNCHANGED <<log, resps, cookies, loc>>
    /\ UNCHANGED engine

openvpn ==
    /\ pc = "openvpn"
    /\ LET req == Get("/", NoHeaders) IN
       \/ Fails(req)
       \/ \E r \in RootResponses :
            /\ Receives(req, r)
            /\ Returns(openvpn_return(cookies', r))
            /\ UNCHANGED <<loc, open>>
    /\ UNCHANGED engine

fortinet ==
    /\ pc = "fortinet"
    /\ LET req == Get("/remote/login", NoHeaders) IN
       \/ Fails(req)
       \/ \E r \in FortinetResponses :
            /\ Receives(req, r)
            /\ Returns(fortinet_return(r))
            /\ UNCHANGED <<loc, open>>
    /\ UNCHANGED engine

----------------------------------------------------------------------------
(* The fingerprint engine: every sniffer of the registry against one server *)

Reverse(s) == [i \in 1..Len(s) |-> s[Len(s) + 1 - i]]

(* the orders the engine may run the registry in: as registered, and back *)
Orders == {sniffers, Reverse(sniffers)}

Label(sniffer) ==
    CASE sniffer = "anyconnect" -> "AnyConnect/OpenConnect"
      [] sniffer = "juniper_nc" -> "Juniper Network Connect"
      [] sniffer = "global_protect" -> "PAN GlobalProtect"
      [] sniffer = "barracuda" -> "Barracuda"
      [] sniffer = "check_point" -> "Check Point"
      [] sniffer = "sstp" -> "SSTP"
      [] sniffer = "openvpn" -> "OpenVPN"
      [] sniffer = "fortinet" -> "Fortinet"

EngineCall ==
    /\ pc = "idle"
    /\ idx < Len(order)
    /\ pc' = order[idx + 1]
    /\ loc' = IF order[idx + 1] = "global_protect" THEN global_protect_locals
              ELSE NoLocals
    /\ log' = <<>>
    /\ resps' = <<>>
    /\ result' = Pending
    /\ detected' = FALSE
    /\ shown' = ""
    /\ UNCHANGED <<order, idx, cookies, open, errors>>

EngineReport ==
    /\ pc = "returned"
    /\ detected' = (result.kind = "Hit" /\ Hit_bool(result.hit))
    /\ shown' = IF result.kind = "Raise" THEN Label(order[idx + 1]) \o ": error"
                ELSE IF detected'
                THEN Label(order[idx + 1]) \o ": " \o details(result.hit)
                ELSE ""
    /\ errors' = IF result.kind = "Raise" THEN errors + 1 ELSE errors
    /\ idx' = idx + 1
    /\ pc' = "idle"
    /\ UNCHANGED <<order, loc, cookies, open, log, resps, result>>

Init ==
    /\ order \in Orders
    /\ idx = 0
    /\ pc = "idle"
    /\ loc = NoLocals
    /\ cookies = {}
    /\ open = {}
    /\ log = <<>>
    /\ resps = <<>>
    /\ result = Pending
    /\ detected = FALSE
    /\ shown = ""
    /\ errors = 0

Next ==
    \/ EngineCall
    \/ anyconnect
    \/ anyconnect_connect
    \/ anyconnect_with
    \/ juniper_nc
    \/ global_protect
    \/ barracuda
    \/ check_point
    \/ check_point_get
    \/ sstp
    \/ sstp_with
    \/ openvpn
    \/ fortinet
    \/ EngineReport

Spec == Init /\ [][Next]_vars

----------------------------------------------------------------------------
(* class Hit on its own: any Hit a caller may construct *)

Confidences ==
    {-ONE, -40, 0, 5, 15, C0_2, 40, C0_8, 70, C0_9, 75, ONE, ONE + 40}

Hits ==
    {Hit(c, n, v, k) :
        c \in Confidences,
        n \in {None, "", "Cisco"},
        v \in {None, "", "8.1.3"},
        k \in {Nothing, Some(<<>>), Some(<<"portal">>),
               Some(<<"portal", "gateway">>)}}

InitHit ==
    /\ result \in {Returned(h) : h \in Hits}
    /\ pc = "hit"
    /\ order = sniffers
    /\ idx = 0
    /\ loc = NoLocals
    /\ cookies = {}
    /\ open = {}
    /\ log = <<>>
    /\ resps = <<>>
    /\ detected = FALSE
    /\ shown = ""
    /\ errors = 0

(* bool(hit) *)
HitBool ==
    /\ pc = "hit"
    /\ detected' = Hit_bool(result.hit)
    /\ pc' = "hit_bool"
    /\ UNCHANGED <<order, idx, loc, cookies, open, log, resps, result, shown, errors>>

(* hit.details *)
HitDetails ==
    /\ pc = "hit_bool"
    /\ shown' = details(result.hit)
    /\ pc' = "hit_details"
    /\ UNCHANGED <<order, idx, loc, cookies, open, log, resps, result, detected,
                   errors>>

NextHit == HitBool \/ HitDetails

SpecHit == InitHit /\ [][NextHit]_vars

----------------------------------------------------------------------------
(* Properties *)

Sniffer == order[idx + 1]

Ended(sniffer) == pc = "returned" /\ Sniffer = sniffer

(* a request of this invocation got no response: the transport raised *)
RequestFailed == Len(log) > Len(resps)

(* C1: an invocation during which the transport raises ends in an error
   outcome, neither None nor a Hit; and the engine goes on after it: the
   outcome is reported and the next sniffer of the registry is called. *)
C1_FailureIsAnErrorOutcome ==
    /\ (pc = "returned" /\ RequestFailed) => result.kind = "Raise"
    /\ (pc = "returned" /\ result.kind = "Raise") => ENABLED EngineReport
    /\ (pc = "idle" /\ errors > 0 /\ idx < Len(order)) => ENABLED EngineCall

C1_Witness ==
    /\ pc = "returned"
    /\ errors > 0
    /\ Len(log) = 2
    /\ RequestFailed
    /\ result.kind = "Raise"

(* the cookies the responses of this invocation set *)
OwnCookies == UNION {Range(resps[i].set_cookies) : i \in 1..Len(resps)}

(* C2: the result of a sniffer depends only on the responses to its own
   requests: it is the result the sniffer gives on a session that holds the
   cookies of those responses alone, whatever ran before it. *)
C2_ResultFromOwnResponses ==
    (pc = "returned" /\ ~RequestFailed) =>
        /\ Sniffer = "juniper_nc" => result = juniper_nc_return(OwnCookies, resps[1])
        /\ Sniffer = "barracuda" => result = barracuda_return(OwnCookies, resps[1])
        /\ Sniffer = "openvpn" => result = openvpn_return(OwnCookies, resps[1])

(* C3: when an invocation has ended, no streamed response is open, however
   the with block was left. *)
C3_StreamsClosed == pc \in {"returned", "idle"} => open = {}

C3_Witness ==
    /\ Ended("anyconnect")
    /\ Len(resps) = 2
    /\ result.kind = "Raise"
    /\ open = {}

(* C4: bool(Hit) is false when confidence <= 0.0 and true when it is > 0.0,
   whatever the name, version and components. *)
C4_DetectedIffPositive ==
    pc \in {"hit_bool", "hit_details"} =>
        /\ result.hit.confidence <= 0 => detected = FALSE
        /\ result.hit.confidence > 0 => detected = TRUE

C4_Witness ==
    /\ pc = "hit_bool"
    /\ result.hit.confidence = 0
    /\ result.hit.name = "Cisco"
    /\ ~detected

Present(x) == x # None /\ x # ""

(* the integers nearest to n / d (both of them when n / d is halfway) *)
Nearest(n, d) ==
    {k \in (Trunc(n, d) - 1)..(Trunc(n, d) + 1) :
        2 * (k * d - n) <= d /\ 2 * (n - k * d) <= d}

(* C5: details is the ", " join of the name, the version, the components
   joined by "+" and the confidence rounded to an integer percentage, of
   which the absent or empty ones are left out, the percentage being there
   if and only if confidence < 1.0. *)
C5_DetailsJoinsPresentFields ==
    pc = "hit_details" =>
        LET h == result.hit
            fields == (IF Present(h.name) THEN <<h.name>> ELSE <<>>)
                   \o (IF Present(h.version) THEN <<h.version>> ELSE <<>>)
                   \o (IF h.components \notin {Nothing, Some(<<>>)}
                       THEN <<Join(h.components[1], "+")>> ELSE <<>>)
        IN IF h.confidence < ONE
           THEN \E k \in Nearest(h.confidence * 100, ONE) :
                    shown = Join(fields \o <<ToString(k) \o "%">>, ", ")
           ELSE shown = Join(fields, ", ")

(* the version the prelogin responses carry: the panos-version of the last
   response that matches the signature and has one *)
Prelogin(r) ==
    /\ "content-type" \in DOMAIN r.hdr
    /\ r.hdr["content-type"][1] = "application/xml"
    /\ \E i \in 1..Len(r.content) : r.content[i] = "<prelogin-response>"

PreloginSuccess(r) ==
    Prelogin(r) /\ \E i \in 1..Len(r.content) : r.content[i] = "<status>Success</status>"

Versioned == {i \in 1..Len(resps) :
                 Prelogin(resps[i]) /\ PanosVersionSearch(resps[i].content) # None}

PanosVersion ==
    IF Versioned = {} THEN None ELSE PanosVersionSearch(resps[Max(Versioned)].content)

ServerHeader(r) == IF "server" \in DOMAIN r.hdr THEN r.hdr["server"] ELSE None

Suppressed(x, placeholder) == IF x = placeholder THEN None ELSE x

(* C6: no Hit carries its product's placeholder as version: global_protect
   never '1', sstp never 'Microsoft-HTTPAPI/2.0', fortinet never
   'xxxxxxxx-xxxxx' (the version is None then), and any other extracted
   value is the version unchanged. *)
C6_PlaceholderVersionSuppressed ==
    (pc = "returned" /\ result.kind = "Hit") =>
        /\ Sniffer = "global_protect" =>
              result.hit.version = Suppressed(PanosVersion, "1")
        /\ Sniffer = "sstp" =>
              result.hit.version =
                  Suppressed(ServerHeader(resps[1]), "Microsoft-HTTPAPI/2.0")
        /\ Sniffer = "fortinet" =>
              result.hit.version = Suppressed(ServerHeader(resps[1]), "xxxxxxxx-xxxxx")

C6_Witness ==
    /\ Ended("global_protect")
    /\ result.kind = "Hit"
    /\ PanosVersionSearch(resps[1].content) = "8.1.3"
    /\ PanosVersion = "1"
    /\ result.hit.version = None

(* C7: global_protect probes the portal path, then the gateway path; it
   returns a Hit iff a response has the XML content type and the
   <prelogin-response> marker (the XML content type being one that begins
   with application/xml, as the code tests it); components lists, in the order portal,
   gateway, the probes whose matching response has <status>Success</status>;
   a response that does not match gives neither a component nor a version. *)
C7_GlobalProtectComponents ==
    (Ended("global_protect") /\ ~RequestFailed) =>
        /\ Len(resps) = 2
        /\ log[1].path = "/global-protect/prelogin.esp"
        /\ log[2].path = "/ssl-vpn/prelogin.esp"
        /\ result.kind = IF Prelogin(resps[1]) \/ Prelogin(resps[2])
                         THEN "Hit" ELSE "None"
        /\ result.kind = "Hit" =>
              /\ result.hit.components =
                     Some((IF PreloginSuccess(resps[1]) THEN <<"portal">> ELSE <<>>)
                       \o (IF PreloginSuccess(resps[2]) THEN <<"gateway">> ELSE <<>>))
              /\ result.hit.version = Suppressed(PanosVersion, "1")
              /\ (~Prelogin(resps[2])
                    /\ resps[1].content =
                         <<"<prelogin-response>", "<status>Success</status>",
                           "<panos-version>", "8.1.3", "</panos-version>",
                           "</prelogin-response>">>)
                  => /\ result.hit.components = Some(<<"portal">>)
                     /\ result.hit.version = "8.1.3"

C7_Witness ==
    /\ Ended("global_protect")
    /\ result.kind = "Hit"
    /\ result.hit.components = Some(<<"portal">>)
    /\ result.hit.version = "8.1.3"
    /\ ~Prelogin(resps[2])
    /\ PanosVersionSearch(resps[2].content) = "8.1.3"

SetsSvpnCookieFirst(r) ==
    r.set_cookies # <<>> /\ r.set_cookies[1][1] = "SVPNCOOKIE"

(* C8: when the Set-Cookie header of the Fortinet response begins with
   SVPNCOOKIE, the Hit has confidence 1.0 and no version if the server header
   is 'xxxxxxxx-xxxxx', and confidence 0.9 and the server string as version
   for any other server string; otherwise no Hit is returned. *)
C8_FortinetConfidence ==
    (Ended("fortinet") /\ ~RequestFailed) =>
        IF SetsSvpnCookieFirst(resps[1])
        THEN /\ result.kind = "Hit"
             /\ ServerHeader(resps[1]) = "xxxxxxxx-xxxxx" =>
                   result.hit.confidence = ONE /\ result.hit.version = None
             /\ ServerHeader(resps[1]) \notin {None, "xxxxxxxx-xxxxx"} =>
                   /\ result.hit.confidence = C0_9
                   /\ result.hit.version = ServerHeader(resps[1])
        ELSE result.kind = "None"

C8_Witness ==
    /\ Ended("fortinet")
    /\ result.kind = "Hit"
    /\ result.hit.confidence = C0_9
    /\ result.hit.version = "Apache"
    /\ Len(resps[1].set_cookies) = 2

OcservHit(version) == Returned(Hit(ONE, "ocserv", version, Nothing))

(* C9: anyconnect first issues GET /CSCOSSLC/tunnel and, on an X-Reason
   header, returns the Cisco Hit without a CONNECT; only otherwise it issues
   the CONNECT with the cookie 'webvpn=', where the reason phrase 'Cookie is
   not acceptable' gives ocserv 0.11.7+ before the body is read, else a body
   that begins with 'X-Reason:' gives ocserv 0.8.0-0.11.6, else no Hit: one
   or two requests per invocation. *)
C9_AnyconnectProbeOrder ==
    /\ pc \in {"anyconnect_connect", "anyconnect_with"} =>
          Len(log) \in 1..2 /\ ~("x-reason" \in DOMAIN resps[1].hdr)
    /\ Ended("anyconnect") =>
          /\ Len(log) \in 1..2
          /\ log[1] = Request("GET", "/CSCOSSLC/tunnel", NoHeaders, FALSE)
          /\ Len(log) = 2 =>
                /\ log[2].method = "CONNECT"
                /\ log[2].path = "/CSCOSSLC/tunnel"
                /\ log[2].headers.Cookie = "webvpn="
          /\ (Len(resps) >= 1 /\ "x-reason" \in DOMAIN resps[1].hdr) =>
                /\ Len(log) = 1
                /\ result = Returned(Hit(ONE, "Cisco", ServerHeader(resps[1]), Nothing))
          /\ (Len(resps) = 1 /\ ~("x-reason" \in DOMAIN resps[1].hdr)) =>
                Len(log) = 2 /\ result.kind = "Raise"
          /\ Len(resps) = 2 =>
                IF resps[2].reason = "Cookie is not acceptable"
                THEN result = OcservHit("0.11.7+") /\ loc.nread = 0
                ELSE \/ result.kind = "Raise"
                     \/ result =
                          IF /\ Len(resps[2].raw) >= 9
                             /\ SubSeq(resps[2].raw, 1, 9) = X_Reason
                          THEN OcservHit("0.8.0-0.11.6")
                          ELSE ReturnedNone

C9_Witness ==
    /\ Ended("anyconnect")
    /\ Len(resps) = 2
    /\ resps[2].reason = "Cookie is not acceptable"
    /\ Len(resps[2].raw) >= 9
    /\ SubSeq(resps[2].raw, 1, 9) = X_Reason
    /\ result = OcservHit("0.11.7+")

(* C10: an invocation that completes returns None or a Hit whose confidence
   is one of 0.2, 0.8, 0.9, 1.0, so within (0.0, 1.0]: a returned Hit is
   never falsy. *)
C10_ReturnedHitIsDetected ==
    (pc = "returned" /\ result.kind # "Raise") =>
        /\ result.kind \in {"None", "Hit"}
        /\ result.kind = "Hit" =>
              /\ result.hit.confidence \in {C0_2, C0_8, C0_9, ONE}
              /\ result.hit.confidence > 0
              /\ result.hit.confidence <= ONE

C10_Witness ==
    /\ Ended("barracuda")
    /\ result.kind = "Hit"
    /\ result.hit.confidence = C0_2
    /\ cookies # {}

====
